---- MODULE Spec2Model ----
(***************************************************************************)
(* Model of get_nirspec_mos_info.py: the three page extractors             *)
(* (extract_basic_info_from_GO / _GTO / _DDT), the status fetcher          *)
(* get_observation_status with its retry loop, and check_csv.              *)
(*                                                                         *)
(* A text is a sequence of tokens; a whitespace character is a token of    *)
(* its own, so that strip() and replace() are computed, not assumed.       *)
(* A page element (th, td, span) is a record [text, img].  The parsed page *)
(* is read the way the loops read it: one table, then one row at a time.   *)
(***************************************************************************)
EXTENDS Integers, Sequences, FiniteSets, TLC

\* ------------------------------------------------------------- bounds
\* tables on a page
MaxTables == 2
\* data rows on a page, over all its tables
MaxRows == 2
\* accordion titles on a page
MaxTopics == 2
\* largest retries argument
MaxRetries == 3
\* rows of a csv file
MaxIds == 3

\* ------------------------------------------------------------- texts
White == {" ", "\n", "\r", "\t"}

SeqMin(S) == CHOOSE x \in S : \A y \in S : x <= y
SeqMax(S) == CHOOSE x \in S : \A y \in S : x >= y

\* str.strip(): leading and trailing whitespace removed
strip(s) ==
    LET keep == {i \in 1..Len(s) : s[i] \notin White}
    IN  IF keep = {} THEN <<>> ELSE SubSeq(s, SeqMin(keep), SeqMax(keep))

\* str.replace(ch, ''): every occurrence of one character removed
replace(s, ch) == SelectSeq(s, LAMBDA c : c # ch)

\* pat in s, for strings
contains(pat, s) ==
    \E i \in 0..(Len(s) - Len(pat)) : SubSeq(s, i + 1, i + Len(pat)) = pat

\* x in list, list.index(x) (1-based here)
InList(x, list) == \E i \in 1..Len(list) : list[i] = x
index(list, x) ==
    CHOOSE i \in 1..Len(list) : list[i] = x /\ \A j \in 1..(i - 1) : list[j] # x

\* element.get_text(strip=True) of an element holding one text node
get_text(el) == strip(el.text)
texts(els) == [i \in 1..Len(els) |-> get_text(els[i])]

None == <<>>
Some(x) == <<x>>

\* string literals of the source
INSTRUMENT_MODE == <<"Instrument/", "Mode">>
INSTRUMENT_SP_MODE == <<"Instrument/", " ", "Mode">>
INSTRUMENTS == <<"Instruments">>
AR_Q == <<"AR?">>
AR == <<"AR">>
TEMPLATE == <<"Template">>
NIRSPEC_MOS == <<"NIRSpec", "/", "MOS">>
NIRSPEC == <<"NIRSpec">>
NIRSPEC_MULTIOBJECT == <<"NIRSpec", " ", "MultiObject", " ", "Spectroscopy">>

\* ------------------------------------------------------------- page contents
El(t) == [text |-> t, img |-> FALSE]
Img == [text |-> <<>>, img |-> TRUE]

\* td cells of the listing pages
cPrism == El(<<"NIRSpec", "/", "MOS", " ", "Prism">>)
cSplit == El(<<" ", "NIRSpec", "/", "\n", "MOS">>)
cIFU == El(<<"NIRSpec", "/", "IFU">>)
cSmith == El(<<"Smith">>)
cId == El(<<"GO-001">>)

\* the td cells of one data row
DataRows ==
    { <<>>,
      <<cPrism>>,
      <<cSmith>>,
      <<cPrism, cSmith>>,
      <<cSmith, cPrism>>,
      <<cSplit, cSmith>>,
      <<cIFU, cSmith>>,
      <<cSmith, cSmith>>,
      <<cPrism, Img>>,
      <<cPrism, cSmith, cId>> }

\* the th cells of row 0 of a table
HeaderRows ==
    { <<>>,
      <<El(<<"PI">>)>>,
      <<El(INSTRUMENT_MODE), El(<<"PI">>)>>,
      <<El(<<" ", "Instrument/", " ", "Mode", "\n">>), El(<<"PI">>)>>,
      <<El(<<"PI">>), El(INSTRUMENT_MODE)>>,
      <<El(INSTRUMENT_MODE), El(INSTRUMENT_SP_MODE)>>,
      <<El(INSTRUMENT_MODE), El(AR_Q)>>,
      <<El(INSTRUMENTS), El(<<"PI">>)>>,
      <<El(INSTRUMENT_MODE), El(<<"PI">>), El(<<"ID">>)>> }

\* a table as find_all('tr') shows it: no row at all, or row 0 and what follows
TableHeads == {None} \cup {Some(h) : h \in HeaderRows}

\* the accordion titles of a page, in document order: its first k titles
TopicEl(i) ==
    IF i % 2 = 1 THEN El(<<" ", "Stellar", " ", "Physics", " ">>) ELSE El(<<"Galaxies">>)
TopicLists == {[i \in 1..k |-> TopicEl(i)] : k \in 0..MaxTopics}
Cycles == {<<"Cycle", " ", "1">>}

SeqsUpTo(S, n) == UNION {[1..k -> S] : k \in 0..n}

\* how one HTTP request ends: a good response, a bad status, a transport error
FetchOutcomes == {"ok", "HTTPError", "ConnectionError", "Timeout"}

\* the otherwise-identical page that names the column "Instrument/Mode"
RenameAlias(el) ==
    IF get_text(el) = INSTRUMENT_SP_MODE THEN [el EXCEPT !.text = INSTRUMENT_MODE] ELSE el
RenamedRow(els) == [i \in 1..Len(els) |-> RenameAlias(els[i])]

VARIABLES fn, pc, exc, ret,
          cycle_number, topics, nTables, ti, budget,
          headers, current_headers, topic_text, columns, data,
          headersB, dataB, excB,
          retries, attempt, fetches, sleeps,
          all_headers, all_status_data, template_index, parsed,
          basic_info_file, status_file, df1id, df2id, report

\* locals of the extractors; headersB, dataB, excB are the same call on the
\* otherwise-identical page of RenamedRow
xvars == <<cycle_number, topics, nTables, ti, budget,
           headers, current_headers, topic_text, columns, data,
           headersB, dataB, excB>>
\* locals of get_observation_status; fetches and sleeps count the calls of
\* session.get and time.sleep, parsed is the part of tables already iterated
svars == <<retries, attempt, fetches, sleeps,
           all_headers, all_status_data, template_index, parsed>>
\* arguments and locals of check_csv, and what it printed
cvars == <<basic_info_file, status_file, df1id, df2id, report>>

vars == <<fn, pc, exc, ret, xvars, svars, cvars>>

PyMin(a, b) == IF a <= b THEN a ELSE b

\* ------------------------------------------------------------- loop bodies
Skip == [kind |-> "skip", row |-> <<>>, exc |-> "none"]
Emit(r) == [kind |-> "emit", row |-> r, exc |-> "none"]
Raise(e) == [kind |-> "raise", row |-> <<>>, exc |-> e]

\* "if headers is None: headers = current_headers"
SetOnce(hs, cur) == IF hs = None THEN Some(cur) ELSE hs

\* .get_text(strip=True).replace('\n', '').replace('\r', '').replace(' ', '')
normalized(el) == replace(replace(replace(get_text(el), "\n"), "\r"), " ")

\* GO_row without the "Instrument/ Mode" alias: the column is always looked up
\* as "Instrument/Mode"
GO_row_one_name(hs, cols, topic, cycle) ==
    IF Len(cols) # Len(hs) THEN Skip
    ELSE IF ~InList(INSTRUMENT_MODE, hs) THEN Raise("ValueError")
    ELSE IF contains(NIRSPEC_MOS, normalized(cols[index(hs, INSTRUMENT_MODE)]))
         THEN Emit(texts(cols) \o <<topic, cycle>>)
         ELSE Skip

\* the pairing of zip(topics, tables) shifted by one title
paired_topic_shifted(tps, i) == get_text(tps[IF i + 2 <= Len(tps) THEN i + 2 ELSE 1])

\* topic.get_text(strip=True) of the title zip() pairs with table i (0-based)
paired_topic(tps, i) == get_text(tps[i + 1])

\* body of "for row in rows[1:]" of extract_basic_info_from_GO
GO_row(hs, cols, topic, cycle) ==
    IF Len(cols) # Len(hs) THEN Skip
    ELSE LET key == IF ~InList(INSTRUMENT_SP_MODE, hs)
                    THEN INSTRUMENT_MODE ELSE INSTRUMENT_SP_MODE
         IN  IF ~InList(key, hs) THEN Raise("ValueError")
             ELSE LET instrument_mode == normalized(cols[index(hs, key)])
                  IN  IF contains(NIRSPEC_MOS, instrument_mode)
                      THEN Emit(texts(cols) \o <<topic, cycle>>)
                      ELSE Skip

\* body of "for row in rows[1:]" of extract_basic_info_from_GTO
GTO_row(hs, cols) ==
    IF Len(cols) # Len(hs) THEN Skip
    ELSE IF ~InList(INSTRUMENT_MODE, hs) /\ ~InList(INSTRUMENT_SP_MODE, hs) THEN Skip
    ELSE LET key == IF InList(INSTRUMENT_MODE, hs)
                    THEN INSTRUMENT_MODE ELSE INSTRUMENT_SP_MODE
             instrument_mode == get_text(cols[index(hs, key)])
             row_data == texts(cols)
         IN  IF contains(NIRSPEC_MOS, instrument_mode)
             THEN IF InList(AR_Q, hs) /\ cols[index(hs, AR_Q)].img
                  THEN Emit([row_data EXCEPT ![index(hs, AR_Q)] = AR])
                  ELSE Emit(row_data)
             ELSE Skip

\* body of "for row in rows[1:]" of extract_basic_info_from_DDT
DDT_row(hs, cols) ==
    IF Len(cols) # Len(hs) THEN Skip
    ELSE IF ~InList(INSTRUMENTS, hs) THEN Skip
    ELSE LET instrument_mode == get_text(cols[index(hs, INSTRUMENTS)])
         IN  IF contains(NIRSPEC, instrument_mode) THEN Emit(texts(cols)) ELSE Skip

\* ------------------------------------------------------------- extractors
\* requests.get(url); response.raise_for_status(); soup.find_all(...)
Fetch(f, tps, n) ==
    /\ fn = f /\ pc = "start"
    /\ \E outcome \in FetchOutcomes :
         IF outcome = "ok"
         THEN /\ pc' = "for"
              /\ topics' = tps /\ nTables' = n
              /\ budget' = MaxRows
              /\ UNCHANGED <<exc, ti, headers, data, headersB, dataB>>
         ELSE /\ pc' = "raised" /\ exc' = outcome
              /\ UNCHANGED <<topics, nTables, budget, ti, headers, data, headersB, dataB>>
    /\ UNCHANGED <<fn, ret, cycle_number, current_headers, topic_text, columns, excB>>
    /\ UNCHANGED <<svars, cvars>>

\* one table of the loop: "if not rows: continue", else row 0 gives the headers
Table(f, n, withTopic) ==
    /\ fn = f /\ pc = "for" /\ ti < n
    /\ \E tbl \in TableHeads :
         IF tbl = None
         THEN /\ ti' = ti + 1
              /\ UNCHANGED <<pc, current_headers, headers, headersB, topic_text>>
         ELSE /\ current_headers' = texts(tbl[1])
              /\ headers' = SetOnce(headers, texts(tbl[1]))
              /\ headersB' = SetOnce(headersB, texts(RenamedRow(tbl[1])))
              /\ topic_text' = IF withTopic THEN paired_topic(topics, ti) ELSE topic_text
              /\ pc' = "rows"
              /\ UNCHANGED ti
    /\ UNCHANGED <<fn, exc, ret, cycle_number, topics, nTables, budget, columns,
                   data, dataB, excB>>
    /\ UNCHANGED <<svars, cvars>>

\* one data row of the current table
Row(f, r, res, resB) ==
    /\ fn = f /\ pc = "rows" /\ budget > 0
    /\ budget' = budget - 1
    /\ columns' = Some(r)
    /\ IF res.kind = "raise"
       THEN pc' = "raised" /\ exc' = res.exc /\ data' = data
       ELSE /\ UNCHANGED <<pc, exc>>
            /\ data' = IF res.kind = "emit" THEN Append(data, res.row) ELSE data
    /\ IF excB # "none" THEN UNCHANGED <<dataB, excB>>
       ELSE IF resB.kind = "raise" THEN excB' = resB.exc /\ dataB' = dataB
       ELSE /\ excB' = excB
            /\ dataB' = IF resB.kind = "emit" THEN Append(dataB, resB.row) ELSE dataB
    /\ UNCHANGED <<fn, ret, cycle_number, topics, nTables, ti, headers, headersB,
                   current_headers, topic_text>>
    /\ UNCHANGED <<svars, cvars>>

\* rows[1:] is exhausted: on to the next table
EndTable(f) ==
    /\ fn = f /\ pc = "rows"
    /\ pc' = "for" /\ ti' = ti + 1
    /\ UNCHANGED <<fn, exc, ret, cycle_number, topics, nTables, budget, headers,
                   headersB, current_headers, topic_text, columns, data, dataB, excB>>
    /\ UNCHANGED <<svars, cvars>>

\* "return data, headers"
Return(f, n) ==
    /\ fn = f /\ pc = "for" /\ ti >= n
    /\ pc' = "returned" /\ ret' = Some(<<data, headers>>)
    /\ UNCHANGED <<fn, exc, xvars, svars, cvars>>

GO_Fetch ==
    \E tps \in TopicLists, n \in 0..MaxTables : Fetch("GO", tps, n)
\* "for topic, table in zip(topics, tables)"
GO_Table == Table("GO", PyMin(Len(topics), nTables), TRUE)
GO_Row ==
    \E r \in DataRows :
        Row("GO", r, GO_row(headers[1], r, topic_text, cycle_number),
                     GO_row(headersB[1], r, topic_text, cycle_number))
GO_EndTable == EndTable("GO")
GO_Return == Return("GO", PyMin(Len(topics), nTables))

GTO_Fetch == \E n \in 0..MaxTables : Fetch("GTO", <<>>, n)
GTO_Table == Table("GTO", nTables, FALSE)
GTO_Row ==
    \E r \in DataRows : Row("GTO", r, GTO_row(headers[1], r), GTO_row(headersB[1], r))
GTO_EndTable == EndTable("GTO")
GTO_Return == Return("GTO", nTables)

DDT_Fetch == \E n \in 0..MaxTables : Fetch("DDT", <<>>, n)
DDT_Table == Table("DDT", nTables, FALSE)
DDT_Row ==
    \E r \in DataRows : Row("DDT", r, DDT_row(headers[1], r), DDT_row(headersB[1], r))
DDT_EndTable == EndTable("DDT")
DDT_Return == Return("DDT", nTables)

\* the locals before the call's first statement
NoExtractor ==
    /\ cycle_number = <<>> /\ topics = <<>> /\ nTables = 0 /\ ti = 0 /\ budget = 0
    /\ headers = None /\ current_headers = <<>> /\ topic_text = <<>>
    /\ columns = None /\ data = <<>>
    /\ headersB = None /\ dataB = <<>> /\ excB = "none"
NoStatus ==
    /\ retries = 0 /\ attempt = 0 /\ fetches = 0 /\ sleeps = 0
    /\ all_headers = <<>> /\ all_status_data = <<>> /\ template_index = -1
    /\ parsed = <<>>
NoCsv ==
    /\ basic_info_file = None /\ status_file = None
    /\ df1id = None /\ df2id = None /\ report = None

InitExtract ==
    /\ fn \in {"GO", "GTO", "DDT"} /\ pc = "start"
    /\ ret = None /\ exc = "none"
    /\ cycle_number \in (IF fn = "GO" THEN Cycles ELSE {<<>>})
    /\ topics = <<>> /\ nTables = 0 /\ ti = 0 /\ budget = 0
    /\ headers = None /\ current_headers = <<>> /\ topic_text = <<>>
    /\ columns = None /\ data = <<>>
    /\ headersB = None /\ dataB = <<>> /\ excB = "none"
    /\ NoStatus /\ NoCsv

NextExtract ==
    \/ GO_Fetch \/ GO_Table \/ GO_Row \/ GO_EndTable \/ GO_Return
    \/ GTO_Fetch \/ GTO_Table \/ GTO_Row \/ GTO_EndTable \/ GTO_Return
    \/ DDT_Fetch \/ DDT_Table \/ DDT_Row \/ DDT_EndTable \/ DDT_Return

SpecExtract == InitExtract /\ [][NextExtract]_vars

InitGO == InitExtract /\ fn = "GO"
NextGO == GO_Fetch \/ GO_Table \/ GO_Row \/ GO_EndTable \/ GO_Return
SpecGO == InitGO /\ [][NextGO]_vars

InitAlias == InitExtract /\ fn \in {"GO", "GTO"}
NextAlias ==
    \/ GO_Fetch \/ GO_Table \/ GO_Row \/ GO_EndTable \/ GO_Return
    \/ GTO_Fetch \/ GTO_Table \/ GTO_Row \/ GTO_EndTable \/ GTO_Return
SpecAlias == InitAlias /\ [][NextAlias]_vars

\* ------------------------------------------------------------- get_observation_status
\* td cells of the status page
cTemplate == El(TEMPLATE)
cStatus == El(<<"Status">>)
cMultiObject == El(<<" ", "NIRSpec", " ", "MultiObject", " ", "Spectroscopy", "\n">>)
cImaging == El(<<"NIRCam", " ", "Imaging">>)
cDone == El(<<"Archived">>)

\* the td cells of row 0 of a status table (none when row 0 holds th cells only)
StatusHeaderRows ==
    { <<>>,
      <<cStatus>>,
      <<cTemplate, cStatus>>,
      <<cStatus, El(<<" ", "Template", " ">>)>>,
      <<cStatus, cStatus>>,
      <<cTemplate, El(<<"Visit">>)>> }
StatusTableHeads == {None} \cup {Some(h) : h \in StatusHeaderRows}

StatusRows ==
    { <<>>,
      <<cMultiObject>>,
      <<cMultiObject, cDone>>,
      <<cDone, cMultiObject>>,
      <<cImaging, cDone>>,
      <<cMultiObject, cMultiObject>> }

NoResult == Some(<<<<>>, <<>>>>)

\* an except clause that catches every requests exception
Caught_any(outcome) == outcome # "ok"

\* "except (requests.ConnectionError, requests.Timeout)"
Caught(outcome) == outcome \in {"ConnectionError", "Timeout"}

\* all_headers.extend([header for header in headers if header not in all_headers])
extend_new(all, hs) == all \o SelectSeq(hs, LAMBDA h : ~InList(h, all))

\* headers.index("Template") if "Template" in headers else -1   (0-based)
find_template(hs) == IF InList(TEMPLATE, hs) THEN index(hs, TEMPLATE) - 1 ELSE -1

\* dict(zip(headers, row_data)): a later cell of a repeated name replaces the earlier
row_dict(hs, row_data) ==
    [k \in {hs[i] : i \in 1..Len(hs)} |->
        row_data[SeqMax({i \in 1..Len(hs) : hs[i] = k})]]

\* body of "for row in rows" of get_observation_status
status_row(hs, tidx, cols) ==
    IF Len(cols) # Len(hs) THEN Skip
    ELSE LET row_data == texts(cols)
         IN  IF tidx # -1 /\ contains(NIRSPEC_MULTIOBJECT, row_data[tidx + 1])
             THEN Emit(row_dict(hs, row_data))
             ELSE Skip

\* "while attempt < retries": session.get, raise_for_status, find_all("table"),
\* "if not tables: return [], []"
S_Get ==
    /\ fn = "status" /\ pc = "while" /\ attempt < retries
    /\ fetches' = fetches + 1
    /\ \E outcome \in FetchOutcomes :
         IF outcome = "ok"
         THEN \E n \in 0..MaxTables :
                /\ nTables' = n
                /\ IF n = 0
                   THEN pc' = "returned" /\ ret' = NoResult /\ budget' = budget
                   ELSE pc' = "tables" /\ ret' = ret /\ budget' = MaxRows
                /\ exc' = exc
         ELSE IF Caught(outcome)
         THEN /\ pc' = "except" /\ exc' = outcome
              /\ UNCHANGED <<ret, nTables, budget>>
         ELSE /\ pc' = "raised" /\ exc' = outcome
              /\ UNCHANGED <<ret, nTables, budget>>
    /\ UNCHANGED <<fn, cycle_number, topics, ti, headers, current_headers, topic_text,
                   columns, data, headersB, dataB, excB>>
    /\ UNCHANGED <<retries, attempt, sleeps, all_headers, all_status_data,
                   template_index, parsed, cvars>>

\* the except clause: "attempt += 1; time.sleep(5)"
S_Except ==
    /\ fn = "status" /\ pc = "except"
    /\ attempt' = attempt + 1 /\ sleeps' = sleeps + 1
    /\ exc' = "none" /\ pc' = "while"
    /\ UNCHANGED <<fn, ret, xvars, cvars>>
    /\ UNCHANGED <<retries, fetches, all_headers, all_status_data, template_index, parsed>>

\* the loop condition fails: "return [], []"
S_Exhausted ==
    /\ fn = "status" /\ pc = "while" /\ ~(attempt < retries)
    /\ pc' = "returned" /\ ret' = NoResult
    /\ UNCHANGED <<fn, exc, xvars, svars, cvars>>

\* one table of "for table in tables": rows[0] gives the headers
S_Table ==
    /\ fn = "status" /\ pc = "tables" /\ ti < nTables
    /\ \E tbl \in StatusTableHeads :
         /\ parsed' = Append(parsed, tbl)
         /\ IF tbl = None
            THEN /\ pc' = "raised" /\ exc' = "IndexError"
                 /\ UNCHANGED <<headers, all_headers, template_index, ti>>
            ELSE /\ headers' = Some(texts(tbl[1]))
                 /\ exc' = exc
                 /\ IF texts(tbl[1]) # <<>>
                    THEN /\ all_headers' = extend_new(all_headers, texts(tbl[1]))
                         /\ template_index' = find_template(texts(tbl[1]))
                         /\ pc' = "srows" /\ ti' = ti
                    ELSE /\ pc' = "tables" /\ ti' = ti + 1
                         /\ UNCHANGED <<all_headers, template_index>>
    /\ UNCHANGED <<fn, ret, cycle_number, topics, nTables, budget, current_headers,
                   topic_text, columns, data, headersB, dataB, excB>>
    /\ UNCHANGED <<retries, attempt, fetches, sleeps, all_status_data, cvars>>

\* one row of "for row in rows"
S_Row ==
    /\ fn = "status" /\ pc = "srows" /\ budget > 0
    /\ budget' = budget - 1
    /\ \E r \in StatusRows :
         LET res == status_row(headers[1], template_index, r)
         IN  /\ columns' = Some(r)
             /\ all_status_data' =
                  IF res.kind = "emit" THEN Append(all_status_data, res.row)
                  ELSE all_status_data
    /\ UNCHANGED <<fn, pc, exc, ret, cycle_number, topics, nTables, ti, headers,
                   current_headers, topic_text, data, headersB, dataB, excB>>
    /\ UNCHANGED <<retries, attempt, fetches, sleeps, all_headers, template_index,
                   parsed, cvars>>

\* the rows of the table are exhausted
S_EndTable ==
    /\ fn = "status" /\ pc = "srows"
    /\ pc' = "tables" /\ ti' = ti + 1
    /\ UNCHANGED <<fn, exc, ret, cycle_number, topics, nTables, budget, headers,
                   current_headers, topic_text, columns, data, headersB, dataB, excB>>
    /\ UNCHANGED <<svars, cvars>>

\* "return all_status_data, all_headers"
S_Return ==
    /\ fn = "status" /\ pc = "tables" /\ ti >= nTables
    /\ pc' = "returned" /\ ret' = Some(<<all_status_data, all_headers>>)
    /\ UNCHANGED <<fn, exc, xvars, svars, cvars>>

InitStatus ==
    /\ fn = "status" /\ pc = "while"
    /\ ret = None /\ exc = "none"
    /\ NoExtractor /\ NoCsv
    /\ retries \in 0..MaxRetries
    /\ attempt = 0 /\ fetches = 0 /\ sleeps = 0
    /\ all_headers = <<>> /\ all_status_data = <<>> /\ template_index = -1
    /\ parsed = <<>>

NextStatus ==
    \/ S_Get \/ S_Except \/ S_Exhausted
    \/ S_Table \/ S_Row \/ S_EndTable \/ S_Return

SpecStatus == InitStatus /\ [][NextStatus]_vars

\* ------------------------------------------------------------- check_csv
IDs == {"1", "2", "3"}
\* the 'ID' column of a csv file, None when the file has no such column
CsvFiles == {None} \cup {Some(ids) : ids \in SeqsUpTo(IDs, MaxIds)}

PySet(list) == {list[i] : i \in 1..Len(list)}
issubset(a, b) == \A x \in a : x \in b
difference_swapped(a, b) == b \ a
difference(a, b) == a \ b

\* pd.read_csv(basic_info_file); pd.read_csv(status_file); df1['ID'].tolist(); df2['ID'].tolist()
Csv_Read ==
    /\ fn = "check_csv" /\ pc = "start"
    /\ IF basic_info_file = None \/ status_file = None
       THEN /\ pc' = "raised" /\ exc' = "KeyError"
            /\ df1id' = (IF basic_info_file = None THEN None ELSE Some(basic_info_file[1]))
            /\ df2id' = df2id
       ELSE /\ pc' = "if" /\ exc' = exc
            /\ df1id' = Some(basic_info_file[1])
            /\ df2id' = Some(status_file[1])
    /\ UNCHANGED <<fn, ret, xvars, svars, basic_info_file, status_file, report>>

\* "if set(df1id).issubset(set(df2id))": the two print branches
Csv_Report ==
    /\ fn = "check_csv" /\ pc = "if"
    /\ report' =
         IF issubset(PySet(df1id[1]), PySet(df2id[1]))
         THEN Some([msg |-> "All checked", missing |-> {}])
         ELSE Some([msg |-> "Not all checked, missing:",
                    missing |-> difference(PySet(df1id[1]), PySet(df2id[1]))])
    /\ pc' = "returned"
    /\ UNCHANGED <<fn, exc, ret, xvars, svars, basic_info_file, status_file, df1id, df2id>>

InitCsv ==
    /\ fn = "check_csv" /\ pc = "start"
    /\ ret = None /\ exc = "none"
    /\ NoExtractor /\ NoStatus
    /\ basic_info_file \in CsvFiles /\ status_file \in CsvFiles
    /\ df1id = None /\ df2id = None /\ report = None

NextCsv == Csv_Read \/ Csv_Report

SpecCsv == InitCsv /\ [][NextCsv]_vars

\* ------------------------------------------------------------- extractor claims
\* a step of the row loop, and one that appended to data
RowStep == pc = "rows" /\ budget' = budget - 1
Emitted == RowStep /\ data' # data
Cols == columns'[1]

\* the columns of the row's own table that carry the instrument
OwnInstrumentColumns ==
    {i \in 1..Len(current_headers) :
        IF fn = "DDT" THEN current_headers[i] = INSTRUMENTS
        ELSE current_headers[i] \in {INSTRUMENT_MODE, INSTRUMENT_SP_MODE}}
Matches(cell) ==
    IF fn = "DDT" THEN contains(NIRSPEC, get_text(cell))
    ELSE contains(NIRSPEC_MOS,
                  SelectSeq(get_text(cell), LAMBDA c : c \notin {"\n", "\r", " "}))

\* C3: every emitted row comes from a data row that has as many cells as the
\* header row of its own table; a row of another length is never emitted.
C3_RowLengthOfOwnTable ==
    [][Emitted => Len(Cols) = Len(current_headers)]_vars

\* C4: every emitted row has the filter substring in the instrument column of
\* its own table, and a full-length row that has it there is emitted.
C4_FilterOnOwnInstrumentColumn ==
    [][RowStep =>
        /\ Emitted =>
             \E i \in OwnInstrumentColumns : i <= Len(Cols) /\ Matches(Cols[i])
        /\ ( /\ Len(Cols) = Len(current_headers)
             /\ OwnInstrumentColumns # {}
             /\ \A i \in OwnInstrumentColumns : Matches(Cols[i]) ) => Emitted
      ]_vars

NoInstrumentColumn ==
    IF fn = "DDT" THEN ~InList(INSTRUMENTS, headers[1])
    ELSE ~InList(INSTRUMENT_MODE, headers[1]) /\ ~InList(INSTRUMENT_SP_MODE, headers[1])
\* C6: with no instrument column in the effective header set, every data row is
\* skipped without an error: nothing is emitted and nothing is raised.
C6_MissingColumnSkipsSilently ==
    [][(RowStep /\ NoInstrumentColumn) => (data' = data /\ pc' # "raised")]_vars

AliasColumns(hs) ==
    {i \in 1..Len(hs) : hs[i] \in {INSTRUMENT_MODE, INSTRUMENT_SP_MODE}}
UsesSpacedAlias ==
    /\ headers # None
    /\ Cardinality(AliasColumns(headers[1])) = 1
    /\ InList(INSTRUMENT_SP_MODE, headers[1])
\* C5: a page whose instrument column is named "Instrument/ Mode" and the page
\* that names it "Instrument/Mode" give the same rows in the same order, and
\* neither makes the call fail.
C5_AliasEquivalence ==
    UsesSpacedAlias =>
        /\ headersB # headers
        /\ dataB = data
        /\ exc = "none" /\ excB = "none"
        /\ pc = "returned" => ret = Some(<<dataB, headers>>)
C5_Witness ==
    /\ UsesSpacedAlias /\ pc = "returned" /\ fn = "GO"
    /\ Len(data) = 2 /\ budget = 0

ExampleHeaders == <<INSTRUMENT_MODE, <<"PI">>, <<"ID">>>>
ExampleRow == <<cPrism, cSmith, cId>>
ExpectedGO ==
    [i \in 1..(Len(Cols) + 2) |->
        IF i <= Len(Cols) THEN strip(Cols[i].text)
        ELSE IF i = Len(Cols) + 1 THEN strip(topics[ti + 1].text)
        ELSE cycle_number]
\* C8: the GO extractor pairs the i-th title with the i-th table, reads nothing
\* past the shorter of the two lists, and appends to its output, in document
\* order, exactly the stripped cells of a matching row, the table's title and
\* the cycle label.
C8_GoRowsAndPairing ==
    /\ [](pc = "rows" => (ti < Len(topics) /\ ti < nTables))
    /\ [](pc = "returned" =>
            /\ ti = Len(topics) \/ ti = nTables
            /\ ret = Some(<<data, headers>>))
    /\ [][data' = data \/ (RowStep /\ data' = Append(data, ExpectedGO))]_vars
    /\ [][(RowStep /\ headers = Some(ExampleHeaders) /\ Cols = ExampleRow) =>
            data' = Append(data, <<<<"NIRSpec", "/", "MOS", " ", "Prism">>, <<"Smith">>,
                                   <<"GO-001">>, strip(topics[ti + 1].text),
                                   cycle_number>>)]_vars
C8_Witness ==
    /\ fn = "GO" /\ pc = "returned" /\ ti = 2 /\ headers = Some(ExampleHeaders)
    /\ data = << <<<<"NIRSpec", "/", "MOS", " ", "Prism">>, <<"Smith">>, <<"GO-001">>,
                   <<"Galaxies">>, <<"Cycle", " ", "1">>>> >>

\* ------------------------------------------------------------- status claims
Last(q) == q[Len(q)]

\* C1: k transient failures and then a good response, k < retries, make the
\* call return what was extracted after exactly k+1 fetches; transient failures
\* on every attempt make it return ([], []) after exactly retries fetches.
C1_RetryThenResult ==
    fn = "status" =>
        /\ pc = "raised" => exc = "HTTPError"
        /\ pc \in {"tables", "srows"} => (attempt < retries /\ fetches = attempt + 1)
        /\ pc = "returned" =>
             IF attempt < retries
             THEN /\ fetches = attempt + 1
                  /\ ret = (IF nTables = 0 THEN NoResult
                            ELSE Some(<<all_status_data, all_headers>>))
             ELSE fetches = retries /\ ret = NoResult

\* C2: a bad HTTP status ends the call on that attempt with the error: it is
\* not caught, nothing is returned, and no wait or fetch follows it.
C2_BadStatusPropagates ==
    /\ [](fn = "status" /\ exc = "HTTPError" =>
            /\ pc = "raised" /\ ret = None
            /\ attempt < retries
            /\ fetches = attempt + 1 /\ sleeps = attempt)
    /\ [][fn = "status" /\ pc = "raised" => UNCHANGED <<fetches, sleeps, ret, pc>>]_vars
    /\ [][fn = "status" /\ fetches' # fetches /\ pc' \notin {"tables", "returned", "except"}
            => (pc' = "raised" /\ exc' = "HTTPError" /\ sleeps' = sleeps)]_vars
C2_Witness ==
    /\ fn = "status" /\ pc = "raised" /\ exc = "HTTPError"
    /\ retries = 3 /\ attempt = 1 /\ fetches = 2 /\ sleeps = 1

\* the header names of the tables iterated so far, in document order
RECURSIVE NamesOf(_)
NamesOf(tbls) ==
    IF tbls = <<>> THEN <<>>
    ELSE NamesOf(SubSeq(tbls, 1, Len(tbls) - 1))
         \o (IF Last(tbls) = None THEN <<>> ELSE texts(Last(tbls)[1]))
RECURSIVE FirstAppearance(_)
FirstAppearance(names) ==
    IF names = <<>> THEN <<>>
    ELSE LET before == FirstAppearance(SubSeq(names, 1, Len(names) - 1))
         IN  IF InList(Last(names), before) THEN before ELSE Append(before, Last(names))

\* C9: the header vocabulary is the header names of all tables, each once, in
\* order of first appearance, and every key of a record is one of them.
C9_HeaderVocabulary ==
    (fn = "status" /\ nTables > 0 /\ pc \in {"tables", "srows", "returned"}) =>
        /\ all_headers = FirstAppearance(NamesOf(parsed))
        /\ \A i \in 1..Len(all_status_data) :
             DOMAIN all_status_data[i] \subseteq PySet(all_headers)
        /\ pc = "returned" => ret = Some(<<all_status_data, all_headers>>)

NoParseableHeader(tbl) == tbl = None \/ tbl[1] = <<>>
\* C10: a table with no row, or whose row 0 has no td cell, is skipped: it adds
\* no header and no record, nothing is raised, and the loop goes on.
C10_HeaderlessTableSkipped ==
    [][(fn = "status" /\ pc = "tables" /\ parsed' # parsed
          /\ NoParseableHeader(Last(parsed')))
        => /\ pc' = "tables" /\ ti' = ti + 1 /\ exc' = "none"
           /\ all_headers' = all_headers
           /\ all_status_data' = all_status_data]_vars

\* ------------------------------------------------------------- check_csv claim
FirstIds == {x \in IDs : \E i \in 1..Len(basic_info_file[1]) : basic_info_file[1][i] = x}
SecondIds == {x \in IDs : \E i \in 1..Len(status_file[1]) : status_file[1][i] = x}
\* C7: check_csv reports full coverage exactly when every ID of the first file
\* is in the second, and otherwise exactly the IDs of the first that the second
\* lacks; it changes neither input.
C7_Reconciliation ==
    /\ [](fn = "check_csv" /\ pc = "returned" =>
            /\ report # None
            /\ report[1].msg = "All checked" <=> (\A x \in FirstIds : x \in SecondIds)
            /\ report[1].msg # "All checked" =>
                 /\ report[1].msg = "Not all checked, missing:"
                 /\ \A x \in IDs :
                      x \in report[1].missing <=> (x \in FirstIds /\ x \notin SecondIds)
            /\ df1id = basic_info_file /\ df2id = status_file)
    /\ [][UNCHANGED <<basic_info_file, status_file>>]_vars
C7_Witness ==
    /\ fn = "check_csv" /\ pc = "returned"
    /\ FirstIds = {"1", "2", "3"} /\ SecondIds = {"1", "2"}
    /\ report = Some([msg |-> "Not all checked, missing:", missing |-> {"3"}])

====
